---- MODULE Spec2Model ----
(***************************************************************************)
(* Model of the MxC deployment configuration layer:                        *)
(*   loaders.py               ConfigLoader (settings resolver)             *)
(*   main.py                  the launcher's module-level globals, ui()    *)
(*   generate_model_paths.py  ModelPathsGenerator (document generator)     *)
(*                                                                         *)
(* Python strings are TLA+ strings; Python values whose type matters       *)
(* (None, str, int, bool) are tagged records.  A parsed configuration is   *)
(* a function from section names to option lists, an option list being a   *)
(* sequence of <<key, value>> pairs in file order.  Option values are the  *)
(* strings ConfigParser.get hands back.                                    *)
(***************************************************************************)
EXTENDS Integers, Sequences, FiniteSets, TLC

(***************************************************************************)
(* Bounds of the model.                                                    *)
(***************************************************************************)
\* number of edits made to the baseline deployment files before a run
MaxEdits == 2
\* length of a MODEL_PATHS value handed to parse_multiline_config
MaxValLen == 4

(***************************************************************************)
(* Python values.                                                          *)
(***************************************************************************)
None == [t |-> "None"]
StrVal(s) == [t |-> "str", v |-> s]
IntVal(n) == [t |-> "int", v |-> n]
BoolVal(b) == [t |-> "bool", v |-> b]

\* str(x) of main.py: str(None) is the four letters "None".
PyStr(x) ==
    CASE x.t = "None" -> "None"
      [] x.t = "str" -> x.v
      [] x.t = "bool" -> (IF x.v THEN "True" ELSE "False")
      [] OTHER -> "<int>"

(***************************************************************************)
(* str methods: lower, upper, strip, split, join.                          *)
(***************************************************************************)
LowerCase == "abcdefghijklmnopqrstuvwxyz"
UpperCase == "ABCDEFGHIJKLMNOPQRSTUVWXYZ"
Digits == "0123456789"
\* the characters str.strip() removes (ASCII whitespace)
Whitespace == {" ", "\t", "\n", "\r", "\f"}

CharAt(s, i) == SubSeq(s, i, i)

\* str.lower / str.upper of one character
LowerMap == [c \in {SubSeq(UpperCase, i, i) : i \in 1..26} |->
                SubSeq(LowerCase, CHOOSE i \in 1..26 : SubSeq(UpperCase, i, i) = c,
                                  CHOOSE i \in 1..26 : SubSeq(UpperCase, i, i) = c)]
UpperMap == [c \in {SubSeq(LowerCase, i, i) : i \in 1..26} |->
                SubSeq(UpperCase, CHOOSE i \in 1..26 : SubSeq(LowerCase, i, i) = c,
                                  CHOOSE i \in 1..26 : SubSeq(LowerCase, i, i) = c)]
DigitMap == [c \in {SubSeq(Digits, i, i) : i \in 1..10} |->
                (CHOOSE i \in 1..10 : SubSeq(Digits, i, i) = c) - 1]

LowerChar(c) == IF c \in DOMAIN LowerMap THEN LowerMap[c] ELSE c
UpperChar(c) == IF c \in DOMAIN UpperMap THEN UpperMap[c] ELSE c

RECURSIVE Lower(_)
Lower(s) == IF s = "" THEN "" ELSE LowerChar(Head(s)) \o Lower(Tail(s))

RECURSIVE Upper(_)
Upper(s) == IF s = "" THEN "" ELSE UpperChar(Head(s)) \o Upper(Tail(s))

RECURSIVE LStrip(_)
LStrip(s) == IF s # "" /\ Head(s) \in Whitespace THEN LStrip(Tail(s)) ELSE s

RECURSIVE RStrip(_)
RStrip(s) ==
    IF s # "" /\ CharAt(s, Len(s)) \in Whitespace
    THEN RStrip(SubSeq(s, 1, Len(s) - 1))
    ELSE s

Strip(s) == RStrip(LStrip(s))

\* s.split(sep) for a one-character separator: a sequence of strings
RECURSIVE Split(_, _)
Split(s, sep) ==
    IF \A i \in 1..Len(s) : CharAt(s, i) # sep THEN <<s>>
    ELSE LET first == CHOOSE i \in 1..Len(s) :
                          /\ CharAt(s, i) = sep
                          /\ \A j \in 1..(i - 1) : CharAt(s, j) # sep
         IN  <<SubSeq(s, 1, first - 1)>> \o Split(SubSeq(s, first + 1, Len(s)), sep)

\* sep.join(parts)
RECURSIVE Join(_, _)
Join(sep, parts) ==
    IF parts = <<>> THEN ""
    ELSE IF Len(parts) = 1 THEN parts[1]
    ELSE parts[1] \o sep \o Join(sep, Tail(parts))

\* the set of keys / the value of a key of an option list
Keys(opts) == {opts[i][1] : i \in 1..Len(opts)}
ValueOf(opts, key) == opts[CHOOSE i \in 1..Len(opts) : opts[i][1] = key][2]


\* decimal rendering of a natural number, as an f-string renders an int
RECURSIVE NatToStr(_)
NatToStr(n) ==
    IF n < 10 THEN CharAt(Digits, n + 1)
    ELSE NatToStr(n \div 10) \o CharAt(Digits, (n % 10) + 1)

IntToStr(n) == IF n < 0 THEN "-" \o NatToStr(0 - n) ELSE NatToStr(n)

\* needle in s, for strings
Contains(s, needle) ==
    \E i \in 1..(Len(s) - Len(needle) + 1) : SubSeq(s, i, i + Len(needle) - 1) = needle

(***************************************************************************)
(* Exceptions and results of operations that may raise.                    *)
(***************************************************************************)
NoError == [type |-> "", section |-> "", option |-> ""]
Error(type, section, option) == [type |-> type, section |-> section, option |-> option]
Ok(v) == [err |-> NoError, val |-> v]
Raise(e) == [err |-> e, val |-> None]

\* the exception of the first step that raised, in evaluation order
FirstError(steps) ==
    IF \E i \in 1..Len(steps) : steps[i].err # NoError
    THEN steps[CHOOSE i \in 1..Len(steps) :
                   /\ steps[i].err # NoError
                   /\ \A j \in 1..(i - 1) : steps[j].err = NoError].err
    ELSE NoError

(***************************************************************************)
(* configparser.ConfigParser on a parsed configuration.                    *)
(***************************************************************************)
HasSection(config, section) == section \in DOMAIN config

HasOption(config, section, option) ==
    /\ HasSection(config, section)
    /\ option \in Keys(config[section])

\* config.get(section, option): NoSectionError / NoOptionError when absent
Get(config, section, option) ==
    IF ~HasSection(config, section) THEN Raise(Error("NoSectionError", section, ""))
    ELSE IF ~HasOption(config, section, option) THEN Raise(Error("NoOptionError", section, option))
    ELSE Ok(ValueOf(config[section], option))

\* config.get(section, option, fallback=...): a Python value
GetFallback(config, section, option, fallback) ==
    IF HasOption(config, section, option)
    THEN StrVal(ValueOf(config[section], option))
    ELSE fallback

\* int(s): surrounding whitespace, an optional sign, then decimal digits
IsDigits(s) == s # "" /\ \A i \in 1..Len(s) : CharAt(s, i) \in DOMAIN DigitMap

Unsigned(s) == IF s # "" /\ Head(s) \in {"+", "-"} THEN Tail(s) ELSE s

IsIntLiteral(s) == IsDigits(Unsigned(Strip(s)))

RECURSIVE DigitsValue(_)
DigitsValue(s) ==
    IF s = "" THEN 0
    ELSE 10 * DigitsValue(SubSeq(s, 1, Len(s) - 1)) + DigitMap[CharAt(s, Len(s))]

ParseInt(s) ==
    LET t == Strip(s)
    IN  IF Head(t) = "-" THEN 0 - DigitsValue(Unsigned(t)) ELSE DigitsValue(Unsigned(t))

\* a plausible slip: a malformed value silently yields the fallback
GetInt_SilentFallback(config, section, option, fallback) ==
    IF ~HasOption(config, section, option) THEN Ok(IntVal(fallback))
    ELSE IF IsIntLiteral(ValueOf(config[section], option))
         THEN Ok(IntVal(ParseInt(ValueOf(config[section], option))))
         ELSE Ok(IntVal(fallback))

\* config.getint(section, option, fallback=n): the fallback replaces only
\* NoSectionError / NoOptionError; int()'s ValueError propagates
GetInt(config, section, option, fallback) ==
    IF ~HasOption(config, section, option) THEN Ok(IntVal(fallback))
    ELSE IF IsIntLiteral(ValueOf(config[section], option))
         THEN Ok(IntVal(ParseInt(ValueOf(config[section], option))))
         ELSE Raise(Error("ValueError", section, option))

\* ConfigParser.BOOLEAN_STATES
BooleanTrue == {"1", "yes", "true", "on"}
BooleanFalse == {"0", "no", "false", "off"}

\* config.getboolean(section, option, fallback=b)
GetBoolean(config, section, option, fallback) ==
    IF ~HasOption(config, section, option) THEN Ok(BoolVal(fallback))
    ELSE IF Lower(ValueOf(config[section], option)) \in BooleanTrue THEN Ok(BoolVal(TRUE))
    ELSE IF Lower(ValueOf(config[section], option)) \in BooleanFalse THEN Ok(BoolVal(FALSE))
    ELSE Raise(Error("ValueError", section, option))

(***************************************************************************)
(* The process environment and python-dotenv.                              *)
(***************************************************************************)
\* os.getenv(name)
Getenv(environ, name) == IF name \in DOMAIN environ THEN StrVal(environ[name]) ELSE None

\* load_dotenv(path): variables already in the environment are kept
LoadDotenv(environ, dotenv) ==
    [n \in (DOMAIN environ \cup DOMAIN dotenv) |->
        IF n \in DOMAIN environ THEN environ[n] ELSE dotenv[n]]

(***************************************************************************)
(* loaders.py: ConfigLoader                                                *)
(***************************************************************************)
\* a configuration that has not been read
Unread == [s \in {} |-> <<>>]

\* a plausible slip: the files are read before their existence is checked
ConfigLoaderInit_ReadFirst(cfg_exists, dot_exists, parsable, ini, dotenv, environ) ==
    LET read == IF cfg_exists /\ parsable THEN ini ELSE Unread
        env == IF dot_exists THEN LoadDotenv(environ, dotenv) ELSE environ
    IN  IF ~cfg_exists
        THEN [err |-> Error("FileNotFoundError", "config.ini", ""), config |-> read, environ |-> env]
        ELSE IF ~dot_exists
        THEN [err |-> Error("FileNotFoundError", ".env", ""), config |-> read, environ |-> env]
        ELSE IF ~parsable
        THEN [err |-> Error("ParsingError", "config.ini", ""), config |-> Unread, environ |-> environ]
        ELSE [err |-> NoError, config |-> read, environ |-> env]

\* ConfigLoader.__init__: the parsed configuration and the environment it leaves
\* (config.read raises a configparser.Error on a file it cannot parse)
ConfigLoaderInit(cfg_exists, dot_exists, parsable, ini, dotenv, environ) ==
    IF ~cfg_exists
    THEN [err |-> Error("FileNotFoundError", "config.ini", ""), config |-> Unread, environ |-> environ]
    ELSE IF ~dot_exists
    THEN [err |-> Error("FileNotFoundError", ".env", ""), config |-> Unread, environ |-> environ]
    ELSE IF ~parsable
    THEN [err |-> Error("ParsingError", "config.ini", ""), config |-> Unread, environ |-> environ]
    ELSE [err |-> NoError, config |-> ini, environ |-> LoadDotenv(environ, dotenv)]

\* a plausible slip: the upper-case name is tried before the exact one
get_secret_or_value_UpperFirst(config, environ, section, key) ==
    IF ~HasOption(config, section, key) THEN None
    ELSE LET val == Strip(ValueOf(config[section], key))
         IN  IF Lower(val) = ".env"
             THEN IF Getenv(environ, Upper(key)) # None THEN Getenv(environ, Upper(key))
                  ELSE IF Getenv(environ, key) # None THEN Getenv(environ, key)
                  ELSE Getenv(environ, Lower(key))
             ELSE StrVal(val)

\* ConfigLoader._get_secret_or_value
get_secret_or_value(config, environ, section, key) ==
    IF ~HasOption(config, section, key) THEN None
    ELSE LET val == Strip(ValueOf(config[section], key))
         IN  IF Lower(val) = ".env"
             THEN IF Getenv(environ, key) # None THEN Getenv(environ, key)
                  ELSE IF Getenv(environ, Upper(key)) # None THEN Getenv(environ, Upper(key))
                  ELSE Getenv(environ, Lower(key))
             ELSE StrVal(val)

\* the tokens dict comprehension over the first n options: keys lower-cased,
\* a later option replacing an earlier one of the same lower-cased key
RECURSIVE TokensUpTo(_, _, _)
TokensUpTo(config, environ, n) ==
    IF n = 0 THEN [k \in {} |-> None]
    ELSE LET key == config["TOKENS"][n][1]
             Put(d, k, v) == [x \in DOMAIN d \cup {k} |-> IF x = k THEN v ELSE d[x]]
         IN  Put(TokensUpTo(config, environ, n - 1), Lower(key),
                 get_secret_or_value(config, environ, "TOKENS", key))

Tokens(config, environ) == TokensUpTo(config, environ, Len(config["TOKENS"]))

\* what the fix of the duplicated "host" key would compute
WebHostEntry_Override(config) ==
    LET raw_host == Lower(Strip(GetFallback(config, "WEB", "host", StrVal("0.0.0.0")).v))
    IN  Ok(IF raw_host = "localhost" THEN "0.0.0.0" ELSE raw_host)

\* the "host" entry of the web dict: of the two "host" keys of the dict
\* display the second, config.get("WEB", "host"), is the one that stays
WebHostEntry(config) == Get(config, "WEB", "host")

\* a plausible slip: the separator is dropped when the mount ends with one
DerivedDir_Normalised(mount, name) ==
    IF mount # "" /\ CharAt(mount, Len(mount)) = "/" THEN mount \o name ELSE mount \o "/" \o name

\* f"{fs['volume_mount_location']}/{fs[...]}"
DerivedDir(mount, name) == mount \o "/" \o name

\* load_configs: its steps that may raise, in evaluation order
LoadConfigsSteps(config) ==
    << IF HasSection(config, "TOKENS") THEN Ok(None) ELSE Raise(Error("NoSectionError", "TOKENS", "")),
       GetInt(config, "WEB", "port", 8000),
       WebHostEntry(config),
       GetBoolean(config, "WEB", "remote", TRUE),
       Get(config, "FILESYSTEM", "volume_name"),
       Get(config, "FILESYSTEM", "volume_mount_location"),
       Get(config, "FILESYSTEM", "comfyui_dir"),
       GetInt(config, "RESOURCES", "max_containers", 1),
       GetInt(config, "RESOURCES", "scaledown_window", 30),
       GetInt(config, "RESOURCES", "timeout", 3200),
       GetInt(config, "RESOURCES", "max_inputs", 10) >>

\* the settings load_configs returns once every step has been evaluated
Settings(config, environ, steps) ==
    LET mount == steps[6].val
        nodes == GetFallback(config, "FILESYSTEM", "custom_nodes_dir_name", StrVal("custom_nodes"))
        output == GetFallback(config, "FILESYSTEM", "custom_output_dir_name", StrVal("output"))
    IN  [tokens |-> Tokens(config, environ),
         web |-> [port |-> steps[2].val,
                  host |-> StrVal(steps[3].val),
                  remote |-> steps[4].val],
         filesystem |-> [volume_name |-> StrVal(steps[5].val),
                         volume_mount_location |-> StrVal(mount),
                         comfyui_dir |-> StrVal(steps[7].val),
                         custom_nodes_dir_name |-> nodes,
                         custom_output_dir_name |-> output,
                         custom_nodes_dir |-> StrVal(DerivedDir(mount, nodes.v)),
                         custom_output_dir |-> StrVal(DerivedDir(mount, output.v))],
         resources |-> [gpu_type |-> GetFallback(config, "RESOURCES", "gpu_type", StrVal("t4")),
                        cpu |-> GetFallback(config, "RESOURCES", "cpu", None),
                        memory |-> GetFallback(config, "RESOURCES", "memory", None),
                        max_containers |-> steps[8].val,
                        scaledown_window |-> steps[9].val,
                        timeout |-> steps[10].val,
                        max_inputs |-> steps[11].val]]

\* ConfigLoader.load_configs: the first exception raised, or the settings
LoadConfigs(config, environ) ==
    LET Outcome(steps, err) ==
            IF err # NoError THEN Raise(err) ELSE Ok(Settings(config, environ, steps))
        Run(steps) == Outcome(steps, FirstError(steps))
    IN  CHOOSE r \in {Run(steps) : steps \in {LoadConfigsSteps(config)}} : TRUE

(***************************************************************************)
(* main.py: the launcher's module-level globals and container methods.     *)
(***************************************************************************)
\* lines 18-33: the globals read from cfg; a missing tokens key is a KeyError
ModuleGlobals(cfg) ==
    IF "hf_token" \notin DOMAIN cfg.tokens THEN Raise(Error("KeyError", "tokens", "hf_token"))
    ELSE IF "civitai_api_token" \notin DOMAIN cfg.tokens
    THEN Raise(Error("KeyError", "tokens", "civitai_api_token"))
    ELSE Ok([HF_TOKEN |-> StrVal(PyStr(cfg.tokens["hf_token"])),
             CIVITAI_API_TOKEN |-> StrVal(PyStr(cfg.tokens["civitai_api_token"])),
             WEB_SERVER_HOST |-> StrVal(PyStr(cfg.web.host)),
             WEB_SERVER_PORT |-> cfg.web.port,
             VOLUME_NAME |-> StrVal(PyStr(cfg.filesystem.volume_name)),
             VOLUME_MOUNT_LOCATION |-> StrVal(PyStr(cfg.filesystem.volume_mount_location)),
             COMFYUI_DIR |-> StrVal(PyStr(cfg.filesystem.comfyui_dir)),
             CUSTOM_NODES_DIR |-> StrVal(PyStr(cfg.filesystem.custom_nodes_dir)),
             CUSTOM_OUTPUT_DIR |-> StrVal(PyStr(cfg.filesystem.custom_output_dir)),
             GPU_TYPE |-> IF PyStr(cfg.resources.gpu_type) = "" THEN None
                          ELSE StrVal(PyStr(cfg.resources.gpu_type)),
             CPU |-> cfg.resources.cpu,
             MEMORY |-> cfg.resources.memory,
             MAX_CONTAINERS |-> cfg.resources.max_containers,
             SCALEDOWN_WINDOW |-> cfg.resources.scaledown_window,
             TIMEOUT |-> cfg.resources.timeout,
             MAX_INPUTS |-> cfg.resources.max_inputs])

\* comfy_image.env({...}): the environment of the container image
ImageEnv(g) == [HF_TOKEN |-> g.HF_TOKEN, CIVITAI_API_TOKEN |-> g.CIVITAI_API_TOKEN]

\* ComfyUIContainer.ui: the command line handed to subprocess.Popen
UiCommand(g) ==
    "comfy launch -- --output-directory " \o g.CUSTOM_OUTPUT_DIR.v
        \o " --listen " \o g.WEB_SERVER_HOST.v
        \o " --port " \o IntToStr(g.WEB_SERVER_PORT.v)

(***************************************************************************)
(* generate_model_paths.py: ModelPathsGenerator                            *)
(*                                                                         *)
(* Its ConfigParser keeps the default optionxform: option keys are         *)
(* lower-cased when the file is read.  A dict is a sequence of             *)
(* <<key, value>> pairs in insertion order.                                *)
(***************************************************************************)
\* d[k] = v: an existing key keeps its place, a new key goes last
DictSet(d, k, v) ==
    IF k \in Keys(d)
    THEN [i \in 1..Len(d) |-> IF d[i][1] = k THEN <<k, v>> ELSE d[i]]
    ELSE Append(d, <<k, v>>)

\* d.update(other)
RECURSIVE DictUpdate(_, _)
DictUpdate(d, other) ==
    IF other = <<>> THEN d
    ELSE DictUpdate(DictSet(d, other[1][1], other[1][2]), Tail(other))

\* the options of a section as the default ConfigParser stores them
LowerKeys(opts) == [i \in 1..Len(opts) |-> <<Lower(opts[i][1]), opts[i][2]>>]

\* two options of a section differ only in letter case: DuplicateOptionError
HasDuplicateOption(opts) ==
    \E i \in 1..Len(opts) : \E j \in (i + 1)..Len(opts) : Lower(opts[i][1]) = Lower(opts[j][1])

\* load_config: False when the file is missing or cannot be parsed
load_config(cfg_exists, parsable, ini) ==
    IF ~cfg_exists THEN [ok |-> FALSE, config |-> Unread]
    ELSE IF ~parsable \/ \E sec \in DOMAIN ini : HasDuplicateOption(ini[sec])
    THEN [ok |-> FALSE, config |-> Unread]
    ELSE [ok |-> TRUE, config |-> [sec \in DOMAIN ini |-> LowerKeys(ini[sec])]]

\* a plausible slip: blank lines are kept
parse_multiline_config_KeepBlank(value) ==
    LET lines == Split(value, "\n")
    IN  [i \in 1..Len(lines) |-> Strip(lines[i])]

\* parse_multiline_config:
\*   [line.strip() for line in value.split('\n') if line.strip()]
parse_multiline_config(value) ==
    LET lines == Split(value, "\n")
        kept == SelectSeq(lines, LAMBDA line : Strip(line) # "")
    IN  [i \in 1..Len(kept) |-> Strip(kept[i])]

\* get_filesystem_config: every get carries a fallback, so neither
\* NoSectionError nor NoOptionError is ever raised and the dict is returned
get_filesystem_config(config) ==
    [comfyui_dir |->
         GetFallback(config, "FILESYSTEM", "comfyui_dir", StrVal("/root/comfy/ComfyUI")).v,
     volume_mount_location |->
         GetFallback(config, "FILESYSTEM", "volume_mount_location", StrVal("/root/per_comfy-storage")).v,
     custom_nodes_dir_name |->
         GetFallback(config, "FILESYSTEM", "custom_nodes_dir_name", StrVal("custom_nodes")).v,
     custom_output_dir_name |->
         GetFallback(config, "FILESYSTEM", "custom_output_dir_name", StrVal("output")).v]

\* a plausible slip: the second vae directory is put under the base path
get_default_model_paths_VaeUnderBase(config) ==
    LET comfyui == get_filesystem_config(config).comfyui_dir
        volume == get_filesystem_config(config).volume_mount_location
    IN  << <<"checkpoints", comfyui \o "/models/checkpoints\n" \o volume \o "/checkpoints">>,
           <<"clip", comfyui \o "/models/clip\n" \o volume \o "/text_encoders">>,
           <<"clip_vision", comfyui \o "/models/clip_vision">>,
           <<"configs", comfyui \o "/models/configs">>,
           <<"controlnet", comfyui \o "/models/controlnet">>,
           <<"diffusion_models", comfyui \o "/models/diffusion_models\n" \o volume \o "/diffusion_models">>,
           <<"embeddings", comfyui \o "/models/embeddings">>,
           <<"gligen", comfyui \o "/models/gligen">>,
           <<"hypernetworks", comfyui \o "/models/hypernetworks">>,
           <<"inpaint", comfyui \o "/models/inpaint">>,
           <<"loras", comfyui \o "/models/loras\n" \o volume \o "/loras">>,
           <<"sampling", comfyui \o "/models/sampling">>,
           <<"upscale_models", comfyui \o "/models/upscale_models">>,
           <<"vae", comfyui \o "/models/vae\n" \o comfyui \o "/vae">>,
           <<"vae_approx", comfyui \o "/models/vae_approx">> >>

\* _get_default_model_paths
get_default_model_paths(config) ==
    LET comfyui == get_filesystem_config(config).comfyui_dir
        volume == get_filesystem_config(config).volume_mount_location
    IN  << <<"checkpoints", comfyui \o "/models/checkpoints\n" \o volume \o "/checkpoints">>,
           <<"clip", comfyui \o "/models/clip\n" \o volume \o "/text_encoders">>,
           <<"clip_vision", comfyui \o "/models/clip_vision">>,
           <<"configs", comfyui \o "/models/configs">>,
           <<"controlnet", comfyui \o "/models/controlnet">>,
           <<"diffusion_models", comfyui \o "/models/diffusion_models\n" \o volume \o "/diffusion_models">>,
           <<"embeddings", comfyui \o "/models/embeddings">>,
           <<"gligen", comfyui \o "/models/gligen">>,
           <<"hypernetworks", comfyui \o "/models/hypernetworks">>,
           <<"inpaint", comfyui \o "/models/inpaint">>,
           <<"loras", comfyui \o "/models/loras\n" \o volume \o "/loras">>,
           <<"sampling", comfyui \o "/models/sampling">>,
           <<"upscale_models", comfyui \o "/models/upscale_models">>,
           <<"vae", comfyui \o "/models/vae\n" \o volume \o "/vae">>,
           <<"vae_approx", comfyui \o "/models/vae_approx">> >>

\* get_model_paths: the MODEL_PATHS options, each value parsed and rejoined,
\* or the default table when the section is absent
get_model_paths(config) ==
    IF ~HasSection(config, "MODEL_PATHS") THEN get_default_model_paths(config)
    ELSE [i \in 1..Len(config["MODEL_PATHS"]) |->
             <<config["MODEL_PATHS"][i][1],
               Join("\n", parse_multiline_config(config["MODEL_PATHS"][i][2]))>>]

\* the output file: absent, half-written, or holding a document.  Of a
\* document the model keeps what yaml.safe_load makes of it: whether the
\* top level is a mapping, what stands under its key 'comfyui' ("absent",
\* "dict", "str" or "null"), and that dict or string.
NoFile == [exists |-> FALSE, complete |-> FALSE, top |-> "none", under |-> "absent",
           comfyui |-> <<>>, text |-> ""]
PartialFile == [exists |-> TRUE, complete |-> FALSE, top |-> "none", under |-> "absent",
                comfyui |-> <<>>, text |-> ""]
FileOf(doc) == [exists |-> TRUE, complete |-> TRUE, top |-> "mapping", under |-> "dict",
                comfyui |-> doc, text |-> ""]

\* the dict generate() builds under 'comfyui'
ExtraModelPaths(fs, paths) ==
    DictSet(DictUpdate(<< <<"base_path", fs.comfyui_dir>> >>, paths),
            "custom_nodes", fs.volume_mount_location \o "/" \o fs.custom_nodes_dir_name)

\* a plausible slip: a failed load_config does not end generate()
Generate_NoShortCircuit(cfg_exists, parsable, ini, out, fault) ==
    LET loaded == load_config(cfg_exists, parsable, ini)
        fs == get_filesystem_config(loaded.config)
        paths == get_model_paths(loaded.config)
    IN  [returned |-> BoolVal(loaded.ok /\ fault = "none"),
         config |-> loaded.config,
         fs_config |-> fs,
         model_paths |-> paths,
         output_file |-> CASE fault = "open" -> out
                           [] fault = "write" -> PartialFile
                           [] OTHER -> FileOf(ExtraModelPaths(fs, paths)),
         stages |-> <<"load_config", "get_filesystem_config", "get_model_paths", "write">>]

\* generate(): the return value, what it computed, and the file it leaves.
\* open() failing leaves the file as it was; a failure while dumping leaves
\* the file open() truncated, half-written.
Generate(cfg_exists, parsable, ini, out, fault) ==
    LET loaded == load_config(cfg_exists, parsable, ini)
        fs == get_filesystem_config(loaded.config)
        paths == get_model_paths(loaded.config)
    IN  IF ~loaded.ok
        THEN [returned |-> BoolVal(FALSE), config |-> loaded.config, fs_config |-> None,
              model_paths |-> <<>>, output_file |-> out, stages |-> <<"load_config">>]
        ELSE [returned |-> BoolVal(fault = "none"),
              config |-> loaded.config,
              fs_config |-> fs,
              model_paths |-> paths,
              output_file |-> CASE fault = "open" -> out
                                [] fault = "write" -> PartialFile
                                [] OTHER -> FileOf(ExtraModelPaths(fs, paths)),
              stages |-> <<"load_config", "get_filesystem_config", "get_model_paths", "write">>]

\* validate(): the file must exist (232) and be readable; its text must
\* load as a dict (240) with the key 'comfyui' (244) and with 'base_path'
\* in what stands under that key (248).  'in' is a key test on a dict, a
\* substring test on a str, and a TypeError (caught at 258) on None.  Of a
\* half-written file the text is some prefix of a dump: wellformed tells
\* whether that prefix happens to load as a document with a base_path.
validate(file, fault, wellformed) ==
    IF ~file.exists THEN FALSE
    ELSE IF fault = "read" THEN FALSE
    ELSE IF ~file.complete THEN wellformed
    ELSE IF file.top # "mapping" THEN FALSE
    ELSE IF file.under = "absent" THEN FALSE
    ELSE CASE file.under = "dict" -> "base_path" \in Keys(file.comfyui)
           [] file.under = "str" -> Contains(file.text, "base_path")
           [] OTHER -> FALSE

\* a plausible slip: the result of validate() is only reported
ExitStatus_IgnoreValidate(generated, validated) ==
    IF ~generated THEN 1 ELSE 0

\* generate_extra_model_paths: sys.exit(1) after a failed generate() (273)
\* or a failed validate() (279); returning normally is exit status 0
ExitStatus(generated, validated) ==
    IF ~generated THEN 1
    ELSE IF ~validated THEN 1
    ELSE 0

(***************************************************************************)
(* download_flux_klein.py: the model downloader.                           *)
(***************************************************************************)
VOLUME_MOUNT == "/root/per_comfy-storage"

\* MODELS, in the order of the dict
MODELS ==
    << [filename |-> "flux-2-klein-9b.safetensors",
        url |-> "https://huggingface.co/black-forest-labs/FLUX.2-klein-9B/resolve/main/flux-2-klein-9b.safetensors",
        dir |-> "diffusion_models",
        requires_auth |-> TRUE,
        size |-> "~18GB"],
       [filename |-> "qwen_3_8b_fp8mixed.safetensors",
        url |-> "https://huggingface.co/Comfy-Org/vae-text-encorder-for-flux-klein-9b/resolve/main/split_files/text_encoders/qwen_3_8b_fp8mixed.safetensors",
        dir |-> "text_encoders",
        requires_auth |-> FALSE,
        size |-> "~8GB"],
       [filename |-> "flux2-vae.safetensors",
        url |-> "https://huggingface.co/Comfy-Org/flux2-dev/resolve/main/split_files/vae/flux2-vae.safetensors",
        dir |-> "vae",
        requires_auth |-> FALSE,
        size |-> "~335MB"] >>

\* local_dir and output_path of an entry
LocalDir(info) == VOLUME_MOUNT \o "/" \o info.dir
OutputPath(info) == LocalDir(info) \o "/" \o info.filename

\* a plausible slip: the header is added whatever requires_auth says
BuildCommand_AlwaysAuth(info, token) ==
    <<"aria2c", "-x", "16", "-s", "16", "-k", "1M", "-c", "--file-allocation=none",
      "-d", LocalDir(info), "-o", info.filename>>
        \o <<"--header=Authorization: Bearer " \o token>>
        \o <<info.url>>

\* the aria2c command of an entry
BuildCommand(info, token) ==
    <<"aria2c", "-x", "16", "-s", "16", "-k", "1M", "-c", "--file-allocation=none",
      "-d", LocalDir(info), "-o", info.filename>>
        \o (IF info.requires_auth THEN <<"--header=Authorization: Bearer " \o token>> ELSE <<>>)
        \o <<info.url>>

\* a plausible slip: the loop stops at the first failed download
LoopNext_StopOnFailure(i, returncode) ==
    IF returncode = 0 THEN i + 1 ELSE Len(MODELS) + 1

\* the for loop goes on to the next entry whatever aria2c returned
LoopNext(i, returncode) == i + 1

\* failed after an aria2c run
FailedAfter(names, filename, returncode) ==
    IF returncode = 0 THEN names ELSE Append(names, filename)

(***************************************************************************)
(* The deployment files a run starts from, and the edits an operator makes *)
(* to them before launching.                                               *)
(***************************************************************************)
BaseConfig ==
    [s \in {"TOKENS", "WEB", "FILESYSTEM", "RESOURCES"} |->
        CASE s = "TOKENS" -> << <<"HF_TOKEN", ".env">>, <<"CIVITAI_API_TOKEN", ".env">> >>
          [] s = "WEB" -> << <<"host", "0.0.0.0">>, <<"port", "8000">>, <<"remote", "true">> >>
          [] s = "FILESYSTEM" -> << <<"volume_name", "my-comfy-models">>,
                                    <<"volume_mount_location", "/root/per_comfy-storage">>,
                                    <<"comfyui_dir", "/root/comfy/ComfyUI">> >>
          [] OTHER -> << <<"gpu_type", "t4">>, <<"max_containers", "1">>,
                         <<"scaledown_window", "30">>, <<"timeout", "3200">>,
                         <<"max_inputs", "10">> >>]

BaseDotenv == [n \in {"HF_TOKEN", "CIVITAI_API_TOKEN"} |->
                  IF n = "HF_TOKEN" THEN "hf_secret" ELSE "civitai_secret"]

\* the options an edit may write: <<section, key, value>>
EditOptions ==
    ({"TOKENS"} \X {"HF_TOKEN", "hf_token", "Hf_Token", "CIVITAI_API_TOKEN"}
                \X {".env", " .ENV ", "literal"})
    \cup ({"WEB"} \X {"host"} \X {"localhost", "LocalHost", "127.0.0.1"})
    \cup ({"WEB"} \X {"port"} \X {" 80 ", "http", ""})
    \cup ({"WEB"} \X {"remote"} \X {"No", "maybe"})
    \cup ({"FILESYSTEM"} \X {"volume_mount_location"} \X {"/data", "/data/"})
    \cup ({"FILESYSTEM"} \X {"comfyui_dir"} \X {"/app"})
    \cup ({"FILESYSTEM"} \X {"custom_nodes_dir_name"} \X {"nodes"})
    \cup ({"FILESYSTEM"} \X {"custom_output_dir_name"} \X {"out"})
    \cup ({"RESOURCES"} \X {"gpu_type"} \X {"a10g", ""})
    \cup ({"RESOURCES"} \X {"cpu"} \X {"2"})
    \cup ({"RESOURCES"} \X {"memory"} \X {"1024"})
    \cup ({"RESOURCES"} \X {"max_containers"} \X {"3", "many"})
    \cup ({"RESOURCES"} \X {"scaledown_window"} \X {"60s"})
    \cup ({"RESOURCES"} \X {"timeout"} \X {"1h"})
    \cup ({"RESOURCES"} \X {"max_inputs"} \X {"+4", "4.5"})

\* the variables an edit of .env or of the shell environment may define
EditNames == {"HF_TOKEN", "hf_token", "Hf_Token"}

\* each name carries its own value, so that a result tells which one was read
SecretOf(name, where) == where \o ":" \o name

SetOption(ini, section, key, value) ==
    LET opts == IF section \in DOMAIN ini THEN ini[section] ELSE <<>>
        new == IF key \in Keys(opts)
               THEN [i \in 1..Len(opts) |-> IF opts[i][1] = key THEN <<key, value>> ELSE opts[i]]
               ELSE Append(opts, <<key, value>>)
    IN  [s \in DOMAIN ini \cup {section} |-> IF s = section THEN new ELSE ini[s]]

RemoveOption(ini, section, key) ==
    [ini EXCEPT ![section] = SelectSeq(@, LAMBDA o : o[1] # key)]

RemoveSection(ini, section) == [s \in DOMAIN ini \ {section} |-> ini[s]]

Define(env, name, value) == [n \in DOMAIN env \cup {name} |-> IF n = name THEN value ELSE env[n]]

Undefine(env, name) == [n \in DOMAIN env \ {name} |-> env[n]]

(***************************************************************************)
(* State.                                                                  *)
(***************************************************************************)
VARIABLES
    config_exists,   \* config.ini exists next to the launcher
    env_exists,      \* .env exists next to the launcher
    config_parsable, \* config.ini is well-formed INI text
    config_ini,      \* content of config.ini
    dotenv,          \* content of .env: variable name -> value
    environ,         \* os.environ: variable name -> value
    edits,           \* edits made so far
    pc,              \* position of the run
    config,          \* ConfigLoader.config, the parsed configuration
    cfg,             \* main.py cfg, the result of load_configs (None before)
    raised,          \* the exception that ended the run (NoError if none)
    globals,         \* main.py module-level globals (None before)
    image_env,       \* environment of the container image (None before)
    command,         \* the command line ui() launched ("" before)
    download_token,  \* token of the last download_model call (None before)
    asked,           \* key a direct _get_secret_or_value call asks for ("" if none)
    secret,          \* result of that call (None before)
    io_fault,        \* how writing the output file goes: "none", "open", "write"
    output_file,     \* extra_model_paths.yaml on disk
    fs_config,       \* generate(): result of get_filesystem_config (None before)
    model_paths,     \* generate(): result of get_model_paths (empty before)
    returned,        \* return value of generate() (None before)
    stages,          \* the pipeline stages run so far, in order
    read_fault,      \* how validate() reading the output file goes: "none", "read"
    validated,       \* return value of validate() (None before)
    exit_status,     \* exit status of generate_extra_model_paths (None while running)
    hf_token,        \* download_all_models: its argument
    volume_files,    \* download_all_models: the paths that exist on the volume
    returncodes,     \* download_all_models: the exit status aria2c has for each file
    next_model,      \* download_all_models: index in MODELS of the next entry
    failed,          \* download_all_models: failed
    commands,        \* download_all_models: the commands run so far, in order
    commits          \* download_all_models: volume.commit() calls so far

vars == <<config_exists, env_exists, config_parsable, config_ini, dotenv, environ,
          edits, pc, config, cfg, raised, globals, image_env, command, download_token,
          asked, secret, io_fault, output_file, fs_config, model_paths, returned, stages,
          read_fault, validated, exit_status,
          hf_token, volume_files, returncodes, next_model, failed, commands, commits>>

files == <<config_exists, env_exists, config_parsable, config_ini, dotenv>>
launcher == <<globals, image_env, command, download_token>>
generator == <<io_fault, output_file, fs_config, model_paths, returned, stages>>
\* what the launcher's run never touches
entry == <<read_fault, validated, exit_status>>
downloader == <<hf_token, volume_files, returncodes, next_model, failed, commands, commits>>
aside == <<asked, secret, generator, entry, downloader>>

\* generate_extra_model_paths has not been called
EntryIdle ==
    /\ read_fault = "none"
    /\ validated = None
    /\ exit_status = None

\* download_all_models has not been called
DownloaderIdle ==
    /\ hf_token = ""
    /\ volume_files = {}
    /\ returncodes = <<>>
    /\ next_model = 1
    /\ failed = <<>>
    /\ commands = <<>>
    /\ commits = 0

Init ==
    /\ config_exists = TRUE
    /\ env_exists = TRUE
    /\ config_parsable = TRUE
    /\ config_ini = BaseConfig
    /\ dotenv = BaseDotenv
    /\ environ = [n \in {} |-> ""]
    /\ edits = 0
    /\ pc = "start"
    /\ config = Unread
    /\ cfg = None
    /\ raised = NoError
    /\ globals = None
    /\ image_env = None
    /\ command = ""
    /\ download_token = None
    /\ asked = ""
    /\ secret = None
    /\ io_fault = "none"
    /\ output_file = NoFile
    /\ fs_config = None
    /\ model_paths = <<>>
    /\ returned = None
    /\ stages = <<>>
    /\ EntryIdle
    /\ DownloaderIdle

(***************************************************************************)
(* Edits of the deployment files before the launcher runs.                 *)
(***************************************************************************)
Editing == pc = "start" /\ edits < MaxEdits

EditSetOption ==
    /\ Editing /\ config_exists /\ config_parsable
    /\ \E e \in EditOptions : config_ini' = SetOption(config_ini, e[1], e[2], e[3])
    /\ edits' = edits + 1
    /\ UNCHANGED <<config_exists, env_exists, config_parsable, dotenv, environ, pc, config, cfg, raised, launcher, aside>>

EditRemoveOption ==
    /\ Editing /\ config_exists /\ config_parsable
    /\ \E s \in DOMAIN config_ini : \E k \in Keys(config_ini[s]) :
           config_ini' = RemoveOption(config_ini, s, k)
    /\ edits' = edits + 1
    /\ UNCHANGED <<config_exists, env_exists, config_parsable, dotenv, environ, pc, config, cfg, raised, launcher, aside>>

EditRemoveSection ==
    /\ Editing /\ config_exists /\ config_parsable
    /\ \E s \in DOMAIN config_ini : config_ini' = RemoveSection(config_ini, s)
    /\ edits' = edits + 1
    /\ UNCHANGED <<config_exists, env_exists, config_parsable, dotenv, environ, pc, config, cfg, raised, launcher, aside>>

EditRemoveConfigFile ==
    /\ Editing /\ config_exists
    /\ config_exists' = FALSE
    /\ config_parsable' = TRUE
    /\ config_ini' = Unread
    /\ edits' = edits + 1
    /\ UNCHANGED <<env_exists, dotenv, environ, pc, config, cfg, raised, launcher, aside>>

\* the file is left with text ConfigParser cannot parse
EditCorruptConfig ==
    /\ Editing /\ config_exists /\ config_parsable
    /\ config_parsable' = FALSE
    /\ config_ini' = Unread
    /\ edits' = edits + 1
    /\ UNCHANGED <<config_exists, env_exists, dotenv, environ, pc, config, cfg, raised, launcher, aside>>

EditRemoveEnvFile ==
    /\ Editing /\ env_exists
    /\ env_exists' = FALSE
    /\ dotenv' = [n \in {} |-> ""]
    /\ edits' = edits + 1
    /\ UNCHANGED <<config_exists, config_parsable, config_ini, environ, pc, config, cfg, raised, launcher, aside>>

EditDotenvDefine ==
    /\ Editing /\ env_exists
    /\ \E n \in EditNames : dotenv' = Define(dotenv, n, SecretOf(n, "dotenv"))
    /\ edits' = edits + 1
    /\ UNCHANGED <<config_exists, env_exists, config_parsable, config_ini, environ, pc, config, cfg, raised, launcher, aside>>

EditDotenvUndefine ==
    /\ Editing /\ env_exists
    /\ \E n \in DOMAIN dotenv : dotenv' = Undefine(dotenv, n)
    /\ edits' = edits + 1
    /\ UNCHANGED <<config_exists, env_exists, config_parsable, config_ini, environ, pc, config, cfg, raised, launcher, aside>>

\* a variable exported in the shell the launcher is started from
EditExport ==
    /\ Editing
    /\ \E n \in EditNames : environ' = Define(environ, n, SecretOf(n, "shell"))
    /\ edits' = edits + 1
    /\ UNCHANGED <<files, pc, config, cfg, raised, launcher, aside>>

(***************************************************************************)
(* The run of the launcher.                                                *)
(***************************************************************************)
\* main.py line 17, first half: ConfigLoader(config_path=..., env_path=...)
Construct ==
    /\ pc = "start"
    /\ \E r \in {ConfigLoaderInit(config_exists, env_exists, config_parsable, config_ini, dotenv, environ)} :
           /\ config' = r.config
           /\ environ' = r.environ
           /\ raised' = r.err
           /\ pc' = IF r.err = NoError THEN "constructed" ELSE "failed"
    /\ UNCHANGED <<files, edits, cfg, launcher, aside>>

\* main.py line 17, second half: .load_configs()
CallLoadConfigs ==
    /\ pc = "constructed"
    /\ \E r \in {LoadConfigs(config, environ)} :
           /\ cfg' = r.val
           /\ raised' = r.err
           /\ pc' = IF r.err = NoError THEN "loaded" ELSE "failed"
    /\ UNCHANGED <<files, environ, edits, config, launcher, aside>>

\* main.py lines 18-113: the module-level globals and the image environment
ImportMain ==
    /\ pc = "loaded"
    /\ \E r \in {ModuleGlobals(cfg)} :
           /\ globals' = r.val
           /\ image_env' = IF r.err = NoError THEN ImageEnv(r.val) ELSE None
           /\ raised' = r.err
           /\ pc' = IF r.err = NoError THEN "imported" ELSE "failed"
    /\ UNCHANGED <<files, environ, edits, config, cfg, command, download_token, aside>>

\* ComfyUIContainer.ui
Ui ==
    /\ pc = "imported"
    /\ command' = UiCommand(globals)
    /\ UNCHANGED <<files, environ, edits, pc, config, cfg, raised, globals, image_env, download_token, aside>>

\* ComfyUIContainer.download_model: the token handed to snapshot_download
DownloadModel ==
    /\ pc = "imported"
    /\ download_token' = globals.HF_TOKEN
    /\ UNCHANGED <<files, environ, edits, pc, config, cfg, raised, globals, image_env, command, aside>>

Next ==
    \/ EditSetOption
    \/ EditRemoveOption
    \/ EditRemoveSection
    \/ EditRemoveConfigFile
    \/ EditCorruptConfig
    \/ EditRemoveEnvFile
    \/ EditDotenvDefine
    \/ EditDotenvUndefine
    \/ EditExport
    \/ Construct
    \/ CallLoadConfigs
    \/ ImportMain
    \/ Ui
    \/ DownloadModel

Spec == Init /\ [][Next]_vars

(***************************************************************************)
(* _get_secret_or_value on its own: one TOKENS option, any environment.    *)
(***************************************************************************)
\* spellings of a token key, and the values a TOKENS option may carry
KeySpellings == {"HF_TOKEN", "hf_token", "Hf_Token"}
TokenValues == {".env", ".ENV", " .Env ", "literal", " hf_literal "}

\* every environment over the spellings: each name undefined, empty or set
Environments ==
    UNION {[names -> {"set", "empty"}] : names \in SUBSET KeySpellings}

EnvironOf(e) == [n \in DOMAIN e |-> IF e[n] = "set" THEN SecretOf(n, "shell") ELSE ""]

InitSecret ==
    /\ config_exists = TRUE
    /\ env_exists = TRUE
    /\ config_parsable = TRUE
    /\ \E k \in KeySpellings, v \in TokenValues :
           config_ini = [s \in {"TOKENS"} |-> << <<k, v>> >>]
    /\ dotenv = [n \in {} |-> ""]
    /\ \E e \in Environments : environ = EnvironOf(e)
    /\ edits = 0
    /\ pc = "start"
    /\ config = config_ini
    /\ cfg = None
    /\ raised = NoError
    /\ globals = None
    /\ image_env = None
    /\ command = ""
    /\ download_token = None
    /\ asked \in KeySpellings
    /\ secret = None
    /\ io_fault = "none"
    /\ output_file = NoFile
    /\ fs_config = None
    /\ model_paths = <<>>
    /\ returned = None
    /\ stages = <<>>
    /\ EntryIdle
    /\ DownloaderIdle

\* loader._get_secret_or_value("TOKENS", key)
ResolveSecret ==
    /\ pc = "start"
    /\ secret' = get_secret_or_value(config, environ, "TOKENS", asked)
    /\ pc' = "resolved"
    /\ UNCHANGED <<files, environ, edits, config, cfg, raised, launcher, asked, generator, entry, downloader>>

NextSecret == ResolveSecret

SpecSecret == InitSecret /\ [][NextSecret]_vars

(***************************************************************************)
(* The document generator run on its own.                                  *)
(***************************************************************************)
\* the characters of a MODEL_PATHS value
Alphabet == {"a", "b", " ", "\n"}

\* all strings over the alphabet of length at most n
RECURSIVE StringsUpTo(_)
StringsUpTo(n) ==
    IF n = 0 THEN {""}
    ELSE StringsUpTo(n - 1) \cup {str \o c : str \in StringsUpTo(n - 1), c \in Alphabet}

\* FILESYSTEM sections: every subset of these options, keys as written
FilesystemOptions ==
    << <<"comfyui_dir", "/app">>, <<"Volume_Mount_Location", "/vol">>,
       <<"custom_nodes_dir_name", "nodes">> >>

Subsequences(seq) ==
    {SelectSeq([i \in 1..Len(seq) |-> <<i, seq[i]>>], LAMBDA e : e[1] \in keep) : keep \in SUBSET (1..Len(seq))}

\* ... and one where comfyui_dir is written with nothing after the '='
FilesystemSections ==
    {[i \in 1..Len(sub) |-> sub[i][2]] : sub \in Subsequences(FilesystemOptions)}
        \cup { << <<"comfyui_dir", "">>, <<"volume_mount_location", "/vol">> >> }

\* MODEL_PATHS sections with fixed values
ModelPathsSections ==
    { <<>>,
      << <<"vae", "/m/vae\n\n  /v/vae  ">> >>,
      << <<"LoRAs", "/m/loras">>, <<"clip", " /m/clip\n/v/te\n">> >>,
      << <<"base_path", "/elsewhere">>, <<"vae", "/m/vae">> >>,
      << <<"custom_nodes", "/elsewhere">> >>,
      << <<"vae", "/m/vae">>, <<"VAE", "/v/vae">> >> }

\* a configuration of the given sections; has(name) tells which exist
ConfigOf(fs, mp, has) ==
    [sec \in {n \in {"FILESYSTEM", "MODEL_PATHS"} : has[n]} |->
        IF sec = "FILESYSTEM" THEN fs ELSE mp]

\* the file a previous run left
OldFile == FileOf(<< <<"base_path", "/old">>, <<"custom_nodes", "/old/custom_nodes">> >>)

\* files that generate() did not write, as validate() may find them
ForeignFile(top, under, doc, text) ==
    [exists |-> TRUE, complete |-> TRUE, top |-> top, under |-> under,
     comfyui |-> doc, text |-> text]

ForeignFiles ==
    { PartialFile,
      ForeignFile("scalar", "absent", <<>>, ""),
      ForeignFile("mapping", "absent", <<>>, ""),
      ForeignFile("mapping", "null", <<>>, ""),
      ForeignFile("mapping", "str", <<>>, "/app"),
      ForeignFile("mapping", "str", <<>>, "no base_path here"),
      FileOf(<< <<"vae", "/m/vae">> >>),
      FileOf(<< <<"base_path", "">>, <<"vae", "">> >>) }

\* the configurations the generator is run on: any MODEL_PATHS value with a
\* plain FILESYSTEM section, or any mix of sections, file states and faults,
\* or a plain configuration next to a file generate() did not write
InitGenFiles ==
    \/ /\ config_exists = TRUE
       /\ config_parsable = TRUE
       /\ \E v \in StringsUpTo(MaxValLen) : \E second \in BOOLEAN :
              config_ini = ConfigOf(<< <<"comfyui_dir", "/app">>, <<"volume_mount_location", "/vol">> >>,
                                    IF second THEN << <<"vae", v>>, <<"loras", "/m/loras">> >>
                                    ELSE << <<"vae", v>> >>,
                                    [n \in {"FILESYSTEM", "MODEL_PATHS"} |-> TRUE])
       /\ io_fault = "none"
       /\ output_file = NoFile
       /\ read_fault = "none"
    \/ /\ config_exists = TRUE
       /\ config_parsable = TRUE
       /\ config_ini = ConfigOf(<< <<"comfyui_dir", "/app">> >>, <<>>,
                                [n \in {"FILESYSTEM", "MODEL_PATHS"} |-> n = "FILESYSTEM"])
       /\ io_fault = "none"
       /\ output_file \in ForeignFiles
       /\ read_fault \in {"none", "read"}
    \/ /\ config_exists \in BOOLEAN
       /\ config_parsable \in BOOLEAN
       /\ (~config_exists => config_parsable)
       /\ IF config_exists /\ config_parsable
          THEN \E fs \in FilesystemSections, mp \in ModelPathsSections :
               \E has \in [{"FILESYSTEM", "MODEL_PATHS"} -> BOOLEAN] :
                   /\ (~has["FILESYSTEM"] => fs = <<>>)
                   /\ (~has["MODEL_PATHS"] => mp = <<>>)
                   /\ config_ini = ConfigOf(fs, mp, has)
          ELSE config_ini = Unread
       /\ io_fault \in {"none", "open", "write"}
       /\ output_file \in {NoFile, OldFile}
       /\ read_fault \in {"none", "read"}

InitGen ==
    /\ InitGenFiles
    /\ env_exists = TRUE
    /\ dotenv = [n \in {} |-> ""]
    /\ environ = [n \in {} |-> ""]
    /\ edits = 0
    /\ pc = "start"
    /\ config = Unread
    /\ cfg = None
    /\ raised = NoError
    /\ globals = None
    /\ image_env = None
    /\ command = ""
    /\ download_token = None
    /\ asked = ""
    /\ secret = None
    /\ fs_config = None
    /\ model_paths = <<>>
    /\ returned = None
    /\ stages = <<>>
    /\ validated = None
    /\ exit_status = None
    /\ DownloaderIdle

\* generator.generate()
CallGenerate ==
    /\ pc = "start"
    /\ \E r \in {Generate(config_exists, config_parsable, config_ini, output_file, io_fault)} :
           /\ returned' = r.returned
           /\ config' = r.config
           /\ fs_config' = r.fs_config
           /\ model_paths' = r.model_paths
           /\ output_file' = r.output_file
           /\ stages' = r.stages
    /\ pc' = "generated"
    /\ UNCHANGED <<files, environ, edits, cfg, raised, launcher, asked, secret, io_fault, entry, downloader>>

\* generate_extra_model_paths, lines 272-273: generate() failed, sys.exit(1)
ExitAfterGenerate ==
    /\ pc = "generated"
    /\ returned = BoolVal(FALSE)
    /\ exit_status' = IntVal(ExitStatus(FALSE, FALSE))
    /\ pc' = "exited"
    /\ UNCHANGED <<files, environ, edits, config, cfg, raised, launcher, asked, secret,
                   generator, read_fault, validated, downloader>>

\* generate_extra_model_paths, lines 276-281: generate() succeeded;
\* validate() runs, then sys.exit(1) or the normal return
CallValidate ==
    /\ pc = "generated"
    /\ returned = BoolVal(TRUE)
    /\ \E w \in BOOLEAN : \E v \in {validate(output_file, read_fault, w)} :
           /\ validated' = BoolVal(v)
           /\ exit_status' = IntVal(ExitStatus(TRUE, v))
    /\ stages' = Append(stages, "validate")
    /\ pc' = "exited"
    /\ UNCHANGED <<files, environ, edits, config, cfg, raised, launcher, asked, secret,
                   io_fault, output_file, fs_config, model_paths, returned,
                   read_fault, downloader>>

\* generator.validate() called on its own, on the file as it is
ValidateOnly ==
    /\ pc = "start"
    /\ \E w \in BOOLEAN : validated' = BoolVal(validate(output_file, read_fault, w))
    /\ pc' = "validated"
    /\ UNCHANGED <<files, environ, edits, config, cfg, raised, launcher, asked, secret,
                   generator, read_fault, exit_status, downloader>>

NextGen ==
    \/ CallGenerate
    \/ ExitAfterGenerate
    \/ CallValidate
    \/ ValidateOnly

SpecGen == InitGen /\ [][NextGen]_vars

(***************************************************************************)
(* The downloader run on its own: download_all_models(hf_token).           *)
(***************************************************************************)
\* the tokens it is called with
HfTokens == {"hf_secret", "hf_other"}

\* the exit statuses aria2c ends with
ReturnCodes == {0, 1}

Filenames == {MODELS[i].filename : i \in 1..Len(MODELS)}

\* the function is entered with any of the files already on the volume and
\* any outcome waiting for each download
InitDownload ==
    /\ config_exists = TRUE
    /\ env_exists = TRUE
    /\ config_parsable = TRUE
    /\ config_ini = Unread
    /\ dotenv = [n \in {} |-> ""]
    /\ environ = [n \in {} |-> ""]
    /\ edits = 0
    /\ pc = "downloading"
    /\ config = Unread
    /\ cfg = None
    /\ raised = NoError
    /\ globals = None
    /\ image_env = None
    /\ command = ""
    /\ download_token = None
    /\ asked = ""
    /\ secret = None
    /\ io_fault = "none"
    /\ output_file = NoFile
    /\ fs_config = None
    /\ model_paths = <<>>
    /\ returned = None
    /\ stages = <<>>
    /\ EntryIdle
    /\ hf_token \in HfTokens
    /\ volume_files \in SUBSET {OutputPath(MODELS[i]) : i \in 1..Len(MODELS)}
    /\ returncodes \in [Filenames -> ReturnCodes]
    /\ next_model = 1
    /\ failed = <<>>
    /\ commands = <<>>
    /\ commits = 0

\* one turn of the loop, lines 92-100: the file is there already
SkipExisting ==
    /\ pc = "downloading"
    /\ next_model <= Len(MODELS)
    /\ OutputPath(MODELS[next_model]) \in volume_files
    /\ next_model' = next_model + 1
    /\ UNCHANGED <<files, environ, edits, pc, config, cfg, raised, launcher, asked, secret,
                   generator, entry, hf_token, volume_files, returncodes, failed,
                   commands, commits>>

\* one turn of the loop, lines 92-136: aria2c is run for the entry.  A
\* download that ended well left the file; one that failed may have left a
\* part of it.
RunAria2c ==
    /\ pc = "downloading"
    /\ next_model <= Len(MODELS)
    /\ OutputPath(MODELS[next_model]) \notin volume_files
    /\ \E info \in {MODELS[next_model]} : \E rc \in {returncodes[info.filename]} :
           /\ commands' = Append(commands, BuildCommand(info, hf_token))
           /\ failed' = FailedAfter(failed, info.filename, rc)
           /\ next_model' = LoopNext(next_model, rc)
           /\ IF rc = 0
              THEN volume_files' = volume_files \cup {OutputPath(info)}
              ELSE volume_files' \in {volume_files, volume_files \cup {OutputPath(info)}}
    /\ UNCHANGED <<files, environ, edits, pc, config, cfg, raised, launcher, asked, secret,
                   generator, entry, hf_token, returncodes, commits>>

\* after the loop, lines 138-156: volume.commit(), then the exception
\* when failed is not empty (its message is kept in the last field)
CommitAndFinish ==
    /\ pc = "downloading"
    /\ next_model > Len(MODELS)
    /\ commits' = commits + 1
    /\ IF failed # <<>>
       THEN /\ raised' = Error("Exception", "", "Failed to download: " \o Join(", ", failed))
            /\ pc' = "raised"
       ELSE /\ raised' = raised
            /\ pc' = "done"
    /\ UNCHANGED <<files, environ, edits, config, cfg, launcher, asked, secret,
                   generator, entry, hf_token, volume_files, returncodes, next_model,
                   failed, commands>>

NextDownload ==
    \/ SkipExisting
    \/ RunAria2c
    \/ CommitAndFinish

SpecDownload == InitDownload /\ [][NextDownload]_vars

(***************************************************************************)
(* Properties.                                                             *)
(***************************************************************************)
\* t is s without its leading and trailing whitespace
IsTrimOf(t, s) ==
    \E i \in 1..(Len(s) + 1) : \E j \in 0..Len(s) :
        /\ t = SubSeq(s, i, j)
        /\ \A k \in 1..Len(s) : (k < i \/ k > j) => CharAt(s, k) \in Whitespace
        /\ t # "" => (Head(t) \notin Whitespace /\ CharAt(t, Len(t)) \notin Whitespace)

\* load_configs has been called and has returned or raised
AfterLoad ==
    \/ pc \in {"loaded", "imported"}
    \/ pc = "failed" /\ raised.type \notin {"FileNotFoundError", "ParsingError"}

\* C1: a TOKENS value that is the sentinel '.env' in any letter case resolves
\* to the first defined environment variable among the key as written, the
\* key upper-cased, the key lower-cased, and to None when none is defined,
\* without an error; any other value is returned stripped.
C1_SecretResolution ==
    (pc = "resolved" /\ HasOption(config, "TOKENS", asked)) =>
        LET v == ValueOf(config["TOKENS"], asked)
            order == <<asked, Upper(asked), Lower(asked)>>
            defined == {i \in 1..3 : order[i] \in DOMAIN environ}
            first == CHOOSE i \in defined : \A j \in defined : i <= j
        IN  /\ raised = NoError
            /\ (\E t \in {".env", ".Env", ".ENV"} : IsTrimOf(t, v))
                   => secret = (IF defined = {} THEN None ELSE StrVal(environ[order[first]]))
            /\ (~\E t \in {".env", ".Env", ".ENV"} : IsTrimOf(t, v))
                   => (secret.t = "str" /\ IsTrimOf(secret.v, v))

\* C1 witness: key HF_TOKEN, sentinel value, only hf_token defined: the
\* lower-case fallback finds it.
C1_Witness ==
    /\ pc = "resolved"
    /\ asked = "HF_TOKEN"
    /\ HasOption(config, "TOKENS", "HF_TOKEN")
    /\ ValueOf(config["TOKENS"], "HF_TOKEN") = ".env"
    /\ DOMAIN environ = {"hf_token"}
    /\ secret = StrVal("shell:hf_token")

\* C2: when config.ini or .env is missing, constructing ConfigLoader raises
\* FileNotFoundError with nothing parsed, nothing loaded into the
\* environment, and no settings ever returned.
C2_FailFast ==
    /\ [](raised.type = "FileNotFoundError" =>
              (pc = "failed" /\ config = Unread /\ cfg = None /\ globals = None))
    /\ [][(pc = "start" /\ pc' # "start" /\ (~config_exists \/ ~env_exists)) =>
              (/\ raised'.type = "FileNotFoundError"
               /\ config' = Unread
               /\ environ' = environ
               /\ cfg' = None)]_vars

\* C2 witness: config.ini exists with content, .env is missing, the
\* constructor has raised.
C2_Witness ==
    /\ pc = "failed"
    /\ raised = Error("FileNotFoundError", ".env", "")
    /\ config_exists /\ ~env_exists
    /\ config_ini # Unread

\* C3: a token that resolved to None reaches the launcher's globals, the
\* image environment and the download call as None.
C3_UnresolvedPropagates ==
    (pc = "imported") =>
        /\ cfg.tokens["hf_token"] = None =>
               (/\ globals.HF_TOKEN = None
                /\ image_env.HF_TOKEN = None
                /\ download_token = None)
        /\ cfg.tokens["civitai_api_token"] = None =>
               (/\ globals.CIVITAI_API_TOKEN = None
                /\ image_env.CIVITAI_API_TOKEN = None)

\* the <<section, option>> pairs load_configs documents a default for
DocumentedDefault ==
    [k \in ({"WEB"} \X {"host", "port", "remote"})
           \cup ({"FILESYSTEM"} \X {"custom_nodes_dir_name", "custom_output_dir_name"})
           \cup ({"RESOURCES"} \X {"gpu_type", "cpu", "memory", "max_containers",
                                   "scaledown_window", "timeout", "max_inputs"}) |->
        CASE k = <<"WEB", "host">> -> StrVal("0.0.0.0")
          [] k = <<"WEB", "port">> -> IntVal(8000)
          [] k = <<"WEB", "remote">> -> BoolVal(TRUE)
          [] k = <<"FILESYSTEM", "custom_nodes_dir_name">> -> StrVal("custom_nodes")
          [] k = <<"FILESYSTEM", "custom_output_dir_name">> -> StrVal("output")
          [] k = <<"RESOURCES", "gpu_type">> -> StrVal("t4")
          [] k = <<"RESOURCES", "cpu">> -> None
          [] k = <<"RESOURCES", "memory">> -> None
          [] k = <<"RESOURCES", "max_containers">> -> IntVal(1)
          [] k = <<"RESOURCES", "scaledown_window">> -> IntVal(30)
          [] k = <<"RESOURCES", "timeout">> -> IntVal(3200)
          [] OTHER -> IntVal(10)]

\* the entry of the returned settings that holds <<section, option>>
SettingOf(settings, k) ==
    CASE k[1] = "WEB" -> settings.web[k[2]]
      [] k[1] = "FILESYSTEM" -> settings.filesystem[k[2]]
      [] OTHER -> settings.resources[k[2]]

\* C4: load_configs raises no missing-section / missing-option error for a
\* key with a documented default, and returns the default for every such
\* key that is absent.
C4_DefaultsNeverRaise ==
    AfterLoad =>
        /\ raised.type = "NoOptionError" =>
               <<raised.section, raised.option>> \notin DOMAIN DocumentedDefault
        /\ raised.type = "NoSectionError" => raised.section \notin {"WEB", "RESOURCES"}
        /\ cfg # None =>
               \A k \in DOMAIN DocumentedDefault :
                   ~HasOption(config, k[1], k[2]) => SettingOf(cfg, k) = DocumentedDefault[k]

IsJoined(d, mount, sub) ==
    /\ Len(d) = Len(mount) + 1 + Len(sub)
    /\ SubSeq(d, 1, Len(mount)) = mount
    /\ CharAt(d, Len(mount) + 1) = "/"
    /\ SubSeq(d, Len(mount) + 2, Len(d)) = sub

\* C6: whenever load_configs succeeds, custom_nodes_dir and custom_output_dir
\* are volume_mount_location, one '/', and the configured sub-name or, when
\* unconfigured, 'custom_nodes' / 'output'.
C6_DerivedDirs ==
    cfg # None =>
        LET mount == ValueOf(config["FILESYSTEM"], "volume_mount_location")
            nodes == IF HasOption(config, "FILESYSTEM", "custom_nodes_dir_name")
                     THEN ValueOf(config["FILESYSTEM"], "custom_nodes_dir_name")
                     ELSE "custom_nodes"
            output == IF HasOption(config, "FILESYSTEM", "custom_output_dir_name")
                      THEN ValueOf(config["FILESYSTEM"], "custom_output_dir_name")
                      ELSE "output"
        IN  /\ cfg.filesystem.custom_nodes_dir.t = "str"
            /\ cfg.filesystem.custom_output_dir.t = "str"
            /\ IsJoined(cfg.filesystem.custom_nodes_dir.v, mount, nodes)
            /\ IsJoined(cfg.filesystem.custom_output_dir.v, mount, output)

\* C6 witness: mount /data and unconfigured sub-names give /data/custom_nodes
\* and /data/output.
C6_Witness ==
    /\ cfg # None
    /\ ValueOf(config["FILESYSTEM"], "volume_mount_location") = "/data"
    /\ ~HasOption(config, "FILESYSTEM", "custom_nodes_dir_name")
    /\ ~HasOption(config, "FILESYSTEM", "custom_output_dir_name")
    /\ cfg.filesystem.custom_nodes_dir = StrVal("/data/custom_nodes")
    /\ cfg.filesystem.custom_output_dir = StrVal("/data/output")

\* the integer and boolean settings: <<section, option>>
IntSettings == ({"WEB"} \X {"port"})
                   \cup ({"RESOURCES"} \X {"max_containers", "scaledown_window", "timeout", "max_inputs"})
BoolSettings == {"WEB"} \X {"remote"}

\* <<section, option>> is present with a value that cannot be coerced
Malformed(k) ==
    /\ HasOption(config, k[1], k[2])
    /\ IF k \in IntSettings
       THEN ~IsIntLiteral(ValueOf(config[k[1]], k[2]))
       ELSE Lower(ValueOf(config[k[1]], k[2])) \notin (BooleanTrue \cup BooleanFalse)

\* C7: a present integer or boolean setting that cannot be coerced makes
\* load_configs raise and return nothing; a returned typed setting is the
\* coerced value when the key is present and the fallback only when absent.
C7_TypedExtraction ==
    AfterLoad =>
        /\ (\E k \in IntSettings \cup BoolSettings : Malformed(k)) =>
               (cfg = None /\ pc = "failed" /\ raised # NoError)
        /\ raised.type = "ValueError" => Malformed(<<raised.section, raised.option>>)
        /\ cfg # None =>
               /\ \A k \in IntSettings :
                      SettingOf(cfg, k) = IF HasOption(config, k[1], k[2])
                                          THEN IntVal(ParseInt(ValueOf(config[k[1]], k[2])))
                                          ELSE DocumentedDefault[k]
               /\ \A k \in BoolSettings :
                      SettingOf(cfg, k) = IF HasOption(config, k[1], k[2])
                                          THEN BoolVal(Lower(ValueOf(config[k[1]], k[2])) \in BooleanTrue)
                                          ELSE DocumentedDefault[k]

\* C7 witness: port = http is present and malformed; load_configs raised
\* ValueError for it.
C7_Witness ==
    /\ pc = "failed"
    /\ raised = Error("ValueError", "WEB", "port")
    /\ ValueOf(config["WEB"], "port") = "http"
    /\ cfg = None

\* generate() got past load_config
ConfigLoaded == pc = "generated" /\ Len(stages) > 1

\* C8: with no FILESYSTEM section in the loaded configuration,
\* get_filesystem_config returns None and generate() returns False without
\* writing the output file.
C8_NoFilesystemSectionFails ==
    (ConfigLoaded /\ ~HasSection(config, "FILESYSTEM")) =>
        /\ fs_config = None
        /\ returned = BoolVal(FALSE)
        /\ \A i \in 1..Len(stages) : stages[i] # "write"

\* the categories of the built-in table, and those with a second directory
DefaultCategories ==
    <<"checkpoints", "clip", "clip_vision", "configs", "controlnet", "diffusion_models",
      "embeddings", "gligen", "hypernetworks", "inpaint", "loras", "sampling",
      "upscale_models", "vae", "vae_approx">>
VolumeBacked == {"checkpoints", "clip", "diffusion_models", "loras", "vae"}

\* the FILESYSTEM option the generator reads, or its default
FilesystemSetting(option, default) ==
    IF HasOption(config, "FILESYSTEM", option)
    THEN ValueOf(config["FILESYSTEM"], option)
    ELSE default

\* C9: with no MODEL_PATHS section, get_model_paths returns the built-in
\* table: the 15 categories, each '<comfyui_dir>/models/<category>',
\* followed for checkpoints, clip, diffusion_models, loras and vae only by a
\* newline and a directory under the volume mount; /app and /vol give
\* vae = '/app/models/vae\n/vol/vae'.
C9_DefaultTable ==
    (ConfigLoaded /\ ~HasSection(config, "MODEL_PATHS")) =>
        LET comfyui == FilesystemSetting("comfyui_dir", "/root/comfy/ComfyUI")
            volume == FilesystemSetting("volume_mount_location", "/root/per_comfy-storage")
        IN  /\ Len(model_paths) = Len(DefaultCategories)
            /\ Len(DefaultCategories) = 15
            /\ \A i \in 1..Len(DefaultCategories) :
                   LET cat == DefaultCategories[i]
                       lines == Split(model_paths[i][2], "\n")
                   IN  /\ model_paths[i][1] = cat
                       /\ lines[1] = comfyui \o "/models/" \o cat
                       /\ IF cat \in VolumeBacked
                          THEN /\ Len(lines) = 2
                               /\ Len(lines[2]) > Len(volume) + 1
                               /\ SubSeq(lines[2], 1, Len(volume) + 1) = volume \o "/"
                          ELSE Len(lines) = 1
            /\ (comfyui = "/app" /\ volume = "/vol") =>
                   model_paths[14] = <<"vae", "/app/models/vae\n/vol/vae">>

\* C9 witness: no MODEL_PATHS section, comfyui_dir = /app and
\* volume_mount_location = /vol, and the table has been returned.
C9_Witness ==
    /\ ConfigLoaded
    /\ ~HasSection(config, "MODEL_PATHS")
    /\ FilesystemSetting("comfyui_dir", "") = "/app"
    /\ FilesystemSetting("volume_mount_location", "") = "/vol"
    /\ \E i \in 1..Len(model_paths) : model_paths[i] = <<"vae", "/app/models/vae\n/vol/vae">>

\* paths is the list of the lines of value that are not blank, each without
\* its surrounding whitespace, in their order in value
IsNonBlankLinesOf(paths, value) ==
    LET newlines == {i \in 1..Len(value) : CharAt(value, i) = "\n"}
        starts == newlines \cup {0}
        ends == newlines \cup {Len(value) + 1}
        EndOf(a) == CHOOSE b \in ends : b > a /\ \A c \in ends : c > a => b <= c
        Line(a) == SubSeq(value, a + 1, EndOf(a) - 1)
        nonblank == {a \in starts : \E k \in (a + 1)..(EndOf(a) - 1) : CharAt(value, k) \notin Whitespace}
        Nth(n) == CHOOSE a \in nonblank : Cardinality({b \in nonblank : b < a}) = n - 1
    IN  /\ Len(paths) = Cardinality(nonblank)
        /\ \A n \in 1..Len(paths) : IsTrimOf(paths[n], Line(Nth(n)))

\* C10: parse_multiline_config returns the non-blank lines of a MODEL_PATHS
\* value, trimmed, in their original order, and get_model_paths stores for
\* the key these paths joined by single newlines.
C10_MultilineParsing ==
    (ConfigLoaded /\ HasSection(config, "MODEL_PATHS")) =>
        /\ Len(model_paths) = Len(config["MODEL_PATHS"])
        /\ \A i \in 1..Len(config["MODEL_PATHS"]) :
               LET value == config["MODEL_PATHS"][i][2]
                   paths == parse_multiline_config(value)
               IN  /\ IsNonBlankLinesOf(paths, value)
                   /\ model_paths[i][1] = config["MODEL_PATHS"][i][1]
                   /\ IF paths = <<>> THEN model_paths[i][2] = ""
                      ELSE Split(model_paths[i][2], "\n") = paths

\* C10 witness: a value with a blank line and padded lines has been stored
\* as its two paths joined by one newline.
C10_Witness ==
    /\ ConfigLoaded
    /\ HasSection(config, "MODEL_PATHS")
    /\ config["MODEL_PATHS"] = << <<"vae", "/m/vae\n\n  /v/vae  ">> >>
    /\ model_paths = << <<"vae", "/m/vae\n/v/vae">> >>

\* generate_extra_model_paths has ended
Exited == pc = "exited"

\* C11: the entry point ends with a non-zero exit status whenever generate()
\* or validate() returned False, and with status zero exactly when both
\* returned True; until it ends there is no exit status.
C11_ExitStatus ==
    /\ ~Exited => exit_status = None
    /\ Exited =>
        /\ exit_status \in {IntVal(0), IntVal(1)}
        /\ (returned = BoolVal(FALSE) \/ validated = BoolVal(FALSE)) => exit_status # IntVal(0)
        /\ exit_status = IntVal(0) <=> (returned = BoolVal(TRUE) /\ validated = BoolVal(TRUE))

\* generation succeeded, validation failed, and the exit status is 1
C11_Witness ==
    /\ Exited
    /\ returned = BoolVal(TRUE)
    /\ validated = BoolVal(FALSE)
    /\ exit_status = IntVal(1)

\* the output file holds a document with a dict under 'comfyui' that has
\* the key base_path
HasBasePath(file) ==
    /\ file.exists /\ file.complete
    /\ file.top = "mapping"
    /\ file.under = "dict"
    /\ "base_path" \in Keys(file.comfyui)

\* C12: whenever generate() returned True, the written file re-parses to a
\* mapping with the key 'comfyui' whose base_path is a non-empty string; and
\* validate() returns True only for files that are a mapping with 'comfyui'
\* and a base_path entry under it.
C12_RoundTrip ==
    /\ (pc \in {"generated", "exited"} /\ returned = BoolVal(TRUE)) =>
           /\ HasBasePath(output_file)
           /\ ValueOf(output_file.comfyui, "base_path") # ""
    /\ (validated = BoolVal(TRUE) /\ read_fault = "none" /\ output_file.complete) =>
           HasBasePath(output_file)

\* C13: a call of generate() either leaves the complete document on disk
\* and returns True, or returns False with the output file absent or with
\* exactly the content it had before the call.
C13_NoHalfWrittenFile ==
    [][(pc = "start" /\ pc' = "generated") =>
           IF returned' = BoolVal(TRUE)
           THEN output_file' = FileOf(ExtraModelPaths(fs_config', model_paths'))
           ELSE (~output_file'.exists) \/ output_file' = output_file]_vars

\* the stages of the pipeline, in order
Pipeline == <<"load_config", "get_filesystem_config", "get_model_paths", "write", "validate">>

IsPrefix(a, b) == Len(a) <= Len(b) /\ a = SubSeq(b, 1, Len(a))

Ran(stage) == \E i \in 1..Len(stages) : stages[i] = stage

\* the configuration file is one load_config fails on
LoadFails == ~load_config(config_exists, config_parsable, config_ini).ok

\* generate() has been called
Generated == pc \in {"generated", "exited"}

C15_ReservedEntries ==
    (Generated /\ returned = BoolVal(TRUE)) =>
        /\ HasBasePath(output_file)
        /\ ValueOf(output_file.comfyui, "base_path")
               = FilesystemSetting("comfyui_dir", "/root/comfy/ComfyUI")
        /\ "custom_nodes" \in Keys(output_file.comfyui)
        /\ ValueOf(output_file.comfyui, "custom_nodes")
               = FilesystemSetting("volume_mount_location", "/root/per_comfy-storage")
                    \o "/" \o FilesystemSetting("custom_nodes_dir_name", "custom_nodes")

\* download_all_models has returned or raised
Finished == pc \in {"done", "raised"}

\* the file an aria2c command downloads: the argument after -o
FilenameOf(cmd) == cmd[13]

\* the MODELS entry of a file name
EntryOf(filename) == CHOOSE info \in {MODELS[i] : i \in 1..Len(MODELS)} : info.filename = filename

\* at least one aria2c run of this call ended with a non-zero status
SomeDownloadFailed ==
    \E i \in 1..Len(commands) : returncodes[FilenameOf(commands[i])] # 0

\* C16: every entry of MODELS gets its turn, in order, whatever happened to
\* the earlier ones; an entry whose file exists is skipped (no command, not
\* failed), any other entry gets one aria2c run and is failed exactly when
\* that run returned non-zero; the volume is committed once, after the last
\* entry; and only then the call raises, if and only if some aria2c run
\* returned non-zero.
C16_DownloadAll ==
    /\ [](/\ commits = (IF Finished THEN 1 ELSE 0)
          /\ Finished => next_model = Len(MODELS) + 1
          /\ ~Finished => raised = NoError
          /\ Finished => (pc = "raised" <=> SomeDownloadFailed)
          /\ (pc = "raised") <=> (raised # NoError)
          /\ failed = SelectSeq([i \in 1..Len(commands) |-> FilenameOf(commands[i])],
                                LAMBDA f : returncodes[f] # 0))
    /\ [][/\ next_model' # next_model =>
               /\ next_model' = next_model + 1
               /\ commits = 0 /\ commits' = 0
               /\ IF OutputPath(MODELS[next_model]) \in volume_files
                  THEN commands' = commands /\ failed' = failed
                  ELSE /\ Len(commands') = Len(commands) + 1
                       /\ FilenameOf(commands'[Len(commands')]) = MODELS[next_model].filename
                       /\ failed' = IF returncodes[MODELS[next_model].filename] # 0
                                    THEN Append(failed, MODELS[next_model].filename)
                                    ELSE failed
          /\ commits' # commits => (next_model = Len(MODELS) + 1 /\ UNCHANGED <<commands, failed>>)
          /\ next_model' = next_model => UNCHANGED <<commands, failed>>]_vars

\* the first download failed, the later entries still had their turn (one
\* skipped, one downloaded), the volume was committed and the call raised
C16_Witness ==
    /\ pc = "raised"
    /\ commits = 1
    /\ failed = <<MODELS[1].filename>>
    /\ Len(commands) = 2
    /\ FilenameOf(commands[2]) = MODELS[3].filename

\* the arguments of a command that mention the Authorization header or the token
AuthArguments(cmd) ==
    SelectSeq(cmd, LAMBDA arg : Contains(arg, "Authorization") \/ Contains(arg, hf_token))

\* C17: the command built for an entry with requires_auth true carries the
\* token once, as the header 'Authorization: Bearer <token>'; the command
\* built for an entry with requires_auth false has no argument that mentions
\* the header or the token; every command ends with the entry's URL.
C17_TokenOnlyWhenRequired ==
    \A i \in 1..Len(commands) :
        LET cmd == commands[i]
            info == EntryOf(FilenameOf(cmd))
        IN  /\ cmd[Len(cmd)] = info.url
            /\ IF info.requires_auth
               THEN AuthArguments(cmd) = <<"--header=Authorization: Bearer " \o hf_token>>
               ELSE AuthArguments(cmd) = <<>>

\* a run that downloaded the licensed model and a public one
C17_Witness ==
    /\ Finished
    /\ \E i, j \in 1..Len(commands) :
           /\ EntryOf(FilenameOf(commands[i])).requires_auth
           /\ ~EntryOf(FilenameOf(commands[j])).requires_auth

====
